---------------------------- MODULE Spec2Model ----------------------------
(***************************************************************************)
(* NumInfo (src/app.py): a Streamlit script that looks a term up through   *)
(* an HTTP GET (or a canned mock record), maps common field names and      *)
(* shows the result.                                                       *)
(*                                                                         *)
(* Three specifications:                                                   *)
(*   Spec     the lookup action, one script run per button click           *)
(*   MapSpec  auto_map_fields applied to a bounded set of JSON values      *)
(*   ApiSpec  call_real_api's normalisation of a bounded set of responses  *)
(*                                                                         *)
(* JSON / Python values are pairs <<tag, payload>>:                        *)
(*   <<"str", s>>   s a sequence of atoms (" " is the whitespace atom)     *)
(*   <<"num", n>>   <<"null", <<>>>>   <<"list", seq>>   <<"obj", f>>      *)
(* with f a function from key names to values.  An optional integer (the   *)
(* status) is <<>> for None and <<n>> for n.                               *)
(***************************************************************************)
EXTENDS Integers, Sequences, FiniteSets, TLC

VARIABLES
    pc,           \* position of the script run
    term,         \* st.text_input "Search term"
    use_mock,     \* sidebar checkbox
    auto_map,     \* sidebar checkbox
    base_url,     \* sidebar text input
    outcome,      \* what the network did with the GET of this run
    result,       \* script variable `result` (MapSpec: the argument `data`)
    status,       \* script variable `status`
    display_obj,  \* script variable `display_obj` (MapSpec: the returned dict)
    cards,        \* the priority cards rendered in the summary
    calls,        \* helper functions invoked during this run, in order
    requests,     \* the requests.get calls issued during this run, in order
    shown,        \* page elements emitted during this run
    uncaught,     \* class of the exception that left the try block, if any
    hashSeed,     \* the interpreter's per-process string-hash salt
    mock_idx,     \* idx computed by the latest mock_lookup of this run
    firstMock     \* history: term and record of the process's first mock
                  \* lookup, and whether another lookup has run since

vars == <<pc, term, use_mock, auto_map, base_url, outcome, result, status,
          display_obj, cards, calls, requests, shown, uncaught, hashSeed,
          mock_idx, firstMock>>

----------------------------------------------------------------------------
\* Bounds of the model.
MaxTerm == 2
MaxRespLen == 1
MaxBody == 4
MaxSeed == 1
HashMod == 16
NumKeys == 6
MaxKeys == 3

----------------------------------------------------------------------------
\* Values.
Str(s) == <<"str", s>>
Num(n) == <<"num", n>>
Null == <<"null", <<>>>>
List(l) == <<"list", l>>
Obj(f) == <<"obj", f>>
EmptyDict == [k \in {} |-> Null]
None == <<>>
Unset == <<"unset", <<>>>>

\* isinstance(v, dict), isinstance(v, list)
IsDict(v) == v[1] = "obj"
IsList(v) == v[1] = "list"

\* Python truth value of a JSON value.
Truthy(v) ==
    CASE v[1] = "str" -> v[2] # <<>>
      [] v[1] = "num" -> v[2] # 0
      [] v[1] = "null" -> FALSE
      [] v[1] = "list" -> v[2] # <<>>
      [] v[1] = "obj" -> DOMAIN v[2] # {}
      [] OTHER -> FALSE

\* Truth value of an optional integer (`if status:`).
StatusTruthy(s) == s # None /\ s[1] # 0

\* All sequences over S of length at most n.
SeqsUpTo(S, n) == UNION {[1..k -> S] : k \in 0..n}

\* str.strip(): leading and trailing whitespace atoms removed.
RECURSIVE lstrip(_)
lstrip(s) == IF s # <<>> /\ Head(s) = " " THEN lstrip(Tail(s)) ELSE s

RECURSIVE rstrip(_)
rstrip(s) ==
    IF s # <<>> /\ s[Len(s)] = " " THEN rstrip(SubSeq(s, 1, Len(s) - 1)) ELSE s

strip(s) == rstrip(lstrip(s))

----------------------------------------------------------------------------
\* Sidebar defaults (the widgets' pre-filled values).
key_param == <<"key">>
api_key == <<"lodalelobaby">>
term_param == <<"term">>
http_timeout == 10

----------------------------------------------------------------------------
\* Response.json(): the body is a sequence of tokens; the grammar kept is
\*   value ::= "1" | "{" "}" | "[" "]" | "[" value ("," value)* "]"
\* and any other token ("x") makes the body invalid JSON.
BodyTokens == {"[", "]", ",", "1", "{", "}", "x"}

ParseFail == [ok |-> FALSE, val |-> Null, rest |-> <<>>]

RECURSIVE ParseValue(_)
RECURSIVE ParseElems(_, _)

\* One value at the head of toks: [ok, val, rest].
ParseValue(toks) ==
    IF toks = <<>> THEN ParseFail
    ELSE IF Head(toks) = "1"
        THEN [ok |-> TRUE, val |-> Num(1), rest |-> Tail(toks)]
    ELSE IF Head(toks) = "{"
        THEN IF Len(toks) >= 2 /\ toks[2] = "}"
             THEN [ok |-> TRUE, val |-> Obj(EmptyDict), rest |-> Tail(Tail(toks))]
             ELSE ParseFail
    ELSE IF Head(toks) = "["
        THEN IF Len(toks) >= 2 /\ toks[2] = "]"
             THEN [ok |-> TRUE, val |-> List(<<>>), rest |-> Tail(Tail(toks))]
             ELSE ParseElems(Tail(toks), <<>>)
    ELSE ParseFail

\* The elements of a non-empty array after its "[", acc the ones read so far.
ParseElems(toks, acc) ==
    LET v == ParseValue(toks) IN
    IF ~v.ok \/ v.rest = <<>> THEN ParseFail
    ELSE IF Head(v.rest) = "]"
        THEN [ok |-> TRUE, val |-> List(Append(acc, v.val)), rest |-> Tail(v.rest)]
    ELSE IF Head(v.rest) = ","
        THEN ParseElems(Tail(v.rest), Append(acc, v.val))
    ELSE ParseFail

\* resp.json() raises ValueError unless the whole body is one JSON value.
json_ok(body) ==
    LET p == ParseValue(body) IN p.ok /\ p.rest = <<>>

json_value(body) == ParseValue(body).val

\* Mutant of call_real_api: a list is returned as it is, not wrapped.
call_real_api_unwrapped(resp) ==
    LET status_code == resp.status_code
        data == IF json_ok(resp.body)
                THEN json_value(resp.body)
                ELSE Obj([text |-> Str(resp.body)])
    IN <<data, <<status_code>>>>

\* call_real_api after requests.get returned resp: <<data, status_code>>.
call_real_api(resp) ==
    LET status_code == resp.status_code
        data == IF json_ok(resp.body)
                THEN IF IsList(json_value(resp.body))
                     THEN Obj([results |-> json_value(resp.body)])
                     ELSE json_value(resp.body)
                ELSE Obj([text |-> Str(resp.body)])
    IN <<data, <<status_code>>>>

\* The query parameters {keyp: keyv, termp: termv}; a later equal key wins.
query_params(keyp, keyv, termp, termv) == (termp :> termv) @@ (keyp :> keyv)

\* Mutant of requests_get: the GET is issued again after the first attempt.
requests_get_retried(log, base, params, timeout) ==
    Append(Append(log, [base |-> base, params |-> params, timeout |-> timeout]),
           [base |-> base, params |-> params, timeout |-> timeout])

\* requests.get(base, params=params, timeout=timeout) is called once.
requests_get(log, base, params, timeout) ==
    Append(log, [base |-> base, params |-> params, timeout |-> timeout])

----------------------------------------------------------------------------
\* hash(str): salted per process, a signed integer.  The salt is hashSeed; the
\* value is a polynomial fold reduced to HashMod and read as signed.
AtomCode(a) == IF a = " " THEN 32 ELSE 97

RECURSIVE HashFold(_, _)
HashFold(h, s) ==
    IF s = <<>> THEN h
    ELSE HashFold((h * 31 + AtomCode(Head(s))) % HashMod, Tail(s))

hash(s) ==
    LET u == HashFold(hashSeed % HashMod, s)
    IN IF 2 * u >= HashMod THEN u - HashMod ELSE u

abs(n) == IF n < 0 THEN -n ELSE n

samples(term_value) ==
    << Obj([name |-> Str(<<"Rahul", " ", "Kumar">>),
            fname |-> Str(<<"Suresh", " ", "Kumar">>),
            mobile |-> Str(term_value),
            email |-> Str(<<"rahul.k@example.com">>),
            address |-> Str(<<"Delhi">>)]),
       Obj([name |-> Str(<<"Priya", " ", "Sharma">>),
            fname |-> Str(<<"Anil", " ", "Sharma">>),
            mobile |-> Str(term_value),
            email |-> Str(<<"priya.sh@example.com">>),
            address |-> Str(<<"Mumbai">>)]),
       Obj([name |-> Str(<<"Unknown">>),
            mobile |-> Str(term_value),
            address |-> Str(<<"Unknown">>),
            note |-> Str(<<"No", " ", "data", " ", "found">>)]) >>

\* Mutant of mock_index: the index also depends on the lookups made before.
mock_index_counted(term_value) ==
    IF term_value = <<>> THEN 0
    ELSE (abs(hash(term_value)) + Len(firstMock)) % Len(samples(term_value))

\* idx = 0 if not term_value else abs(hash(term_value)) % len(samples)
mock_index(term_value) ==
    IF term_value = <<>> THEN 0
    ELSE abs(hash(term_value)) % Len(samples(term_value))

\* samples[idx] (Python indexes from 0)
mock_lookup(term_value) == samples(term_value)[mock_index(term_value) + 1]

----------------------------------------------------------------------------
\* auto_map_fields
mapping_candidates ==
    << <<"name", <<"name", "fullname", "full_name", "user", "username">> >>,
       <<"fname", <<"father_name", "fname", "father", "parent">> >>,
       <<"mobile", <<"mobile", "phone", "msisdn", "number">> >>,
       <<"alt", <<"alt", "alternate", "alt_number">> >>,
       <<"email", <<"email", "mail">> >>,
       <<"id", <<"id", "identifier", "uid">> >>,
       <<"circle", <<"circle", "region", "area">> >>,
       <<"address", <<"address", "addr", "location">> >> >>

canonical_keys == {mapping_candidates[i][1] : i \in DOMAIN mapping_candidates}

candidates_of(out_key) ==
    LET i == CHOOSE j \in DOMAIN mapping_candidates :
                 mapping_candidates[j][1] = out_key
    IN mapping_candidates[i][2]

\* Mutant of candidate_hit: the value's truth is not tested.
candidate_hit_presence(d, c) == c \in DOMAIN d

\* `if c in data and data[c]`
candidate_hit(d, c) == c \in DOMAIN d /\ Truthy(d[c])

\* The inner loop: index of the candidate at which it breaks, 0 if it never does.
RECURSIVE first_candidate(_, _, _)
first_candidate(d, candidates, i) ==
    IF i > Len(candidates) THEN 0
    ELSE IF candidate_hit(d, candidates[i]) THEN i
    ELSE first_candidate(d, candidates, i + 1)

\* The shallow search: mapped after the first pair of loops.
shallow_search(d) ==
    LET hit == {k \in canonical_keys : first_candidate(d, candidates_of(k), 1) # 0}
    IN [k \in hit |->
          d[candidates_of(k)[first_candidate(d, candidates_of(k), 1)]]]

\* Mutant of direct_hit: a field already mapped is overwritten.
direct_hit_overwrite(d, mapped, k) == k \in DOMAIN d

\* `if k in data and (k not in mapped)`
direct_hit(d, mapped, k) == k \in DOMAIN d /\ k \notin DOMAIN mapped

\* The second loop: explicit direct hits added to mapped.
direct_hits(d, mapped) ==
    LET added == {k \in canonical_keys : direct_hit(d, mapped, k)}
    IN [k \in DOMAIN mapped \cup added |->
          IF k \in added THEN d[k] ELSE mapped[k]]

\* others = {k: v for k, v in data.items() if k not in mapped}
others_of(d, mapped) == [k \in {x \in DOMAIN d : x \notin DOMAIN mapped} |-> d[k]]

auto_map_fields(data) ==
    IF ~IsDict(data) THEN Obj([raw |-> data])
    ELSE LET d == data[2]
             mapped == direct_hits(d, shallow_search(d))
             others == others_of(d, mapped)
         IN IF DOMAIN others # {}
            THEN Obj(("others" :> Obj(others)) @@ mapped)
            ELSE Obj(mapped)

\* The key of data whose value auto_map_fields stored under out_key
\* (out_key a key of mapped): the candidate at which the inner loop broke, or
\* out_key itself when the second loop added it.
source_key(d, out_key) ==
    LET i == first_candidate(d, candidates_of(out_key), 1)
    IN IF i # 0 THEN candidates_of(out_key)[i] ELSE out_key

----------------------------------------------------------------------------
\* The inputs the model draws.
TermAtoms == {" ", "a"}
Terms == SeqsUpTo(TermAtoms, MaxTerm)
BaseUrls == {<<>>, <<" ">>, <<" ", "u">>}
StatusCodes == {200, 404}

NoOutcome ==
    [kind |-> "none", body |-> <<>>, status_code |-> 0, msg |-> <<>>,
     response |-> None]

\* requests.get returned a response with this body and status code.
Responses(maxlen) ==
    [kind : {"response"}, body : SeqsUpTo(BodyTokens, maxlen),
     status_code : StatusCodes, msg : {<<>>}, response : {None}]

\* requests.get (or anything else in the try block) raised: a
\* RequestException whose .response is None or a response, or another Exception.
Failures ==
    [kind : {"RequestException"}, body : {<<>>}, status_code : {0},
     msg : {<<"timed", " ", "out">>},
     response : {None} \cup {<<c>> : c \in StatusCodes}]
    \cup
    [kind : {"Exception"}, body : {<<>>}, status_code : {0},
     msg : {<<"boom">>}, response : {None}]

\* Exception classes and their bases (StopException is what st.stop() raises).
BaseOf(cls) ==
    CASE cls = "RequestException" -> "Exception"
      [] cls = "Exception" -> "BaseException"
      [] cls = "StopException" -> "BaseException"
      [] OTHER -> "object"

RECURSIVE IsSubclass(_, _)
IsSubclass(cls, base) ==
    IF cls = base THEN TRUE
    ELSE IF cls = "object" THEN FALSE
    ELSE IsSubclass(BaseOf(cls), base)

\* Mutant of except_clause: the `except Exception` clause is missing.
except_clause_requests_only(cls) ==
    IF IsSubclass(cls, "RequestException") THEN 1 ELSE 0

\* The except clause of the lookup's try block that takes an exception of
\* class cls: 1 RequestException, 2 Exception, 0 none (it leaves the block).
except_clause(cls) ==
    IF IsSubclass(cls, "RequestException") THEN 1
    ELSE IF IsSubclass(cls, "Exception") THEN 2
    ELSE 0

\* Mutant of term_missing: the guard never fires.
term_missing_never(t) == FALSE

\* `if not term:`
term_missing(t) == t = <<>>

\* `if not base_url.strip():`
base_url_missing(b) == strip(b) = <<>>

\* The priority cards of the summary: the value, or "N/A" for a falsy one.
priority_keys ==
    {"name", "fname", "mobile", "alt", "email", "id", "circle", "address"}

summary_cards(obj) ==
    IF ~IsDict(obj) THEN EmptyDict
    ELSE [k \in priority_keys \cap DOMAIN obj[2] |->
            IF Truthy(obj[2][k]) THEN obj[2][k] ELSE Str(<<"N/A">>)]

----------------------------------------------------------------------------
\* A script run's variables before the run.
Blank ==
    /\ term = <<>>
    /\ use_mock = FALSE
    /\ auto_map = TRUE
    /\ base_url = <<>>
    /\ outcome = NoOutcome
    /\ result = Unset
    /\ status = None
    /\ display_obj = Unset
    /\ cards = EmptyDict
    /\ calls = <<>>
    /\ requests = <<>>
    /\ shown = {}
    /\ uncaught = "none"
    /\ mock_idx = None

Init ==
    /\ pc = "idle"
    /\ Blank
    /\ hashSeed \in 0..MaxSeed
    /\ firstMock = <<>>

\* The user sets the widgets and presses Lookup: the script runs to the guard.
Trigger(t, m, a, b) ==
    /\ pc = "idle"
    /\ term' = t
    /\ use_mock' = m
    /\ auto_map' = a
    /\ base_url' = b
    /\ IF term_missing(t)
       THEN shown' = {"input_error"} /\ pc' = "done"
       ELSE shown' = {} /\ pc' = "fetch"
    /\ UNCHANGED <<outcome, result, status, display_obj, cards, calls,
                   requests, uncaught, hashSeed, mock_idx, firstMock>>

\* An exception of class e.kind raised inside the try block.
Raise(e) ==
    /\ outcome' = e
    /\ UNCHANGED <<display_obj, cards>>
    /\ IF except_clause(e.kind) = 1
       THEN /\ shown' = shown \cup {"network_error"}
            /\ result' = Obj([error |-> Str(e.msg)])
            /\ status' = e.response
            /\ uncaught' = "none"
            /\ pc' = "present"
       ELSE IF except_clause(e.kind) = 2
       THEN /\ shown' = shown \cup {"unexpected_error"}
            /\ result' = Obj([error |-> Str(e.msg)])
            /\ status' = None
            /\ uncaught' = "none"
            /\ pc' = "present"
       ELSE /\ uncaught' = e.kind
            /\ pc' = "done"
            /\ UNCHANGED <<shown, result, status>>

\* use_mock: result = mock_lookup(term); status = 200
FetchMock ==
    /\ pc = "fetch"
    /\ use_mock
    /\ calls' = Append(calls, "mock_lookup")
    /\ mock_idx' = <<mock_index(term)>>
    /\ result' = mock_lookup(term)
    /\ status' = <<200>>
    /\ firstMock' = IF firstMock = <<>>
                    THEN <<[term |-> term, result |-> mock_lookup(term),
                            between |-> FALSE]>>
                    ELSE IF firstMock[1].term # term
                    THEN <<[firstMock[1] EXCEPT !.between = TRUE]>>
                    ELSE firstMock
    /\ pc' = "present"
    /\ UNCHANGED <<term, use_mock, auto_map, base_url, outcome, display_obj,
                   cards, requests, shown, uncaught, hashSeed>>

\* Empty base URL: st.error, then st.stop() raises StopException in the try.
FetchStop ==
    /\ pc = "fetch"
    /\ ~use_mock
    /\ base_url_missing(base_url)
    /\ uncaught' = IF except_clause("StopException") = 0
                   THEN "StopException" ELSE "none"
    /\ shown' = shown \cup {"base_url_error"}
    /\ pc' = IF except_clause("StopException") = 0 THEN "done" ELSE "present"
    /\ UNCHANGED <<term, use_mock, auto_map, base_url, outcome, result, status,
                   display_obj, cards, calls, requests, hashSeed, mock_idx,
                   firstMock>>

\* call_real_api: one GET, which returns a response or raises.
FetchReal ==
    /\ pc = "fetch"
    /\ ~use_mock
    /\ ~base_url_missing(base_url)
    /\ calls' = Append(calls, "call_real_api")
    /\ requests' = requests_get(requests, strip(base_url),
                       query_params(strip(key_param), strip(api_key),
                                    strip(term_param), strip(term)),
                       http_timeout)
    /\ \/ \E r \in Responses(MaxRespLen) :
            /\ outcome' = r
            /\ result' = call_real_api(r)[1]
            /\ status' = call_real_api(r)[2]
            /\ pc' = "present"
            /\ UNCHANGED <<display_obj, cards, shown, uncaught>>
       \/ \E e \in Failures : Raise(e)
    /\ firstMock' = IF firstMock = <<>> THEN firstMock
                    ELSE <<[firstMock[1] EXCEPT !.between = TRUE]>>
    /\ UNCHANGED <<term, use_mock, auto_map, base_url, hashSeed, mock_idx>>

\* Status line, summary, raw response and CSV download of the run.
Present ==
    /\ pc = "present"
    /\ display_obj' = IF auto_map /\ IsDict(result)
                      THEN auto_map_fields(result) ELSE result
    /\ cards' = summary_cards(display_obj')
    /\ \E csv \in {"csv_download", "csv_warning"} :
          shown' = shown
                   \cup (IF StatusTruthy(status) THEN {"status_info"} ELSE {})
                   \cup {"summary", "raw", csv}
    /\ pc' = "done"
    /\ UNCHANGED <<term, use_mock, auto_map, base_url, outcome, result, status,
                   calls, requests, uncaught, hashSeed, mock_idx, firstMock>>

\* The next interaction starts a fresh script run: nothing of the last run's
\* variables or page survives; the process (its hash salt) does.
Rerun ==
    /\ pc = "done"
    /\ pc' = "idle"
    /\ term' = <<>>
    /\ use_mock' = FALSE
    /\ auto_map' = TRUE
    /\ base_url' = <<>>
    /\ outcome' = NoOutcome
    /\ result' = Unset
    /\ status' = None
    /\ display_obj' = Unset
    /\ cards' = EmptyDict
    /\ calls' = <<>>
    /\ requests' = <<>>
    /\ shown' = {}
    /\ uncaught' = "none"
    /\ mock_idx' = None
    /\ UNCHANGED <<hashSeed, firstMock>>

Next ==
    \/ \E t \in Terms, m \in BOOLEAN, a \in BOOLEAN, b \in BaseUrls :
          Trigger(t, m, a, b)
    \/ FetchMock
    \/ FetchStop
    \/ FetchReal
    \/ Present
    \/ Rerun

Spec == Init /\ [][Next]_vars

----------------------------------------------------------------------------
\* MapSpec: auto_map_fields on every value of a bounded set.
KeyPool ==
    <<"fullname", "phone", "zzz", "name", "father_name", "fname", "mobile",
      "username", "others">>

Keys == {KeyPool[i] : i \in 1..(IF NumKeys < Len(KeyPool) THEN NumKeys ELSE Len(KeyPool))}

ValPool ==
    {Str(<<"A">>), Str(<<"123">>), Str(<<"q">>), Str(<<>>), Num(0), Null}

MapInputs ==
    {Obj(f) : f \in UNION {[S -> ValPool] :
                    S \in {T \in SUBSET Keys : Cardinality(T) <= MaxKeys}}}
    \cup ValPool
    \cup {List(<<>>), List(<<Num(1)>>)}

MapInit ==
    /\ pc = "map_call"
    /\ result \in MapInputs
    /\ term = <<>>
    /\ use_mock = FALSE
    /\ auto_map = TRUE
    /\ base_url = <<>>
    /\ outcome = NoOutcome
    /\ status = None
    /\ display_obj = Unset
    /\ cards = EmptyDict
    /\ calls = <<>>
    /\ requests = <<>>
    /\ shown = {}
    /\ uncaught = "none"
    /\ mock_idx = None
    /\ hashSeed = 0
    /\ firstMock = <<>>

MapApply ==
    /\ pc = "map_call"
    /\ display_obj' = auto_map_fields(result)
    /\ pc' = "map_return"
    /\ UNCHANGED <<term, use_mock, auto_map, base_url, outcome, result, status,
                   cards, calls, requests, shown, uncaught, hashSeed, mock_idx,
                   firstMock>>

MapNext == MapApply

MapSpec == MapInit /\ [][MapNext]_vars

----------------------------------------------------------------------------
\* ApiSpec: call_real_api on every response of a bounded set.
ApiInit ==
    /\ pc = "api_call"
    /\ outcome \in Responses(MaxBody)
    /\ base_url \in {b \in BaseUrls : ~base_url_missing(b)}
    /\ term = <<"a">>
    /\ use_mock = FALSE
    /\ auto_map = TRUE
    /\ result = Unset
    /\ status = None
    /\ display_obj = Unset
    /\ cards = EmptyDict
    /\ calls = <<>>
    /\ requests = <<>>
    /\ shown = {}
    /\ uncaught = "none"
    /\ mock_idx = None
    /\ hashSeed = 0
    /\ firstMock = <<>>

ApiApply ==
    /\ pc = "api_call"
    /\ requests' = requests_get(requests, strip(base_url),
                       query_params(strip(key_param), strip(api_key),
                                    strip(term_param), strip(term)),
                       http_timeout)
    /\ result' = call_real_api(outcome)[1]
    /\ status' = call_real_api(outcome)[2]
    /\ pc' = "api_return"
    /\ UNCHANGED <<term, use_mock, auto_map, base_url, outcome, display_obj,
                   cards, calls, shown, uncaught, hashSeed, mock_idx, firstMock>>

ApiNext == ApiApply

ApiSpec == ApiInit /\ [][ApiNext]_vars

----------------------------------------------------------------------------
\* Properties.

\* The argument and the returned dict of auto_map_fields under MapSpec.
MapReturned == pc = "map_return" /\ IsDict(result)
MapData == result[2]
MapOut == display_obj[2]

\* The canonical fields of the output whose value came from key k of data.
SelectedFor(k) ==
    {f \in canonical_keys \cap DOMAIN MapOut :
        source_key(MapData, f) = k /\ MapOut[f] = MapData[k]}

InOthers(k) ==
    /\ "others" \in DOMAIN MapOut
    /\ IsDict(MapOut["others"])
    /\ k \in DOMAIN MapOut["others"][2]
    /\ MapOut["others"][2][k] = MapData[k]

ScenarioData ==
    Obj([fullname |-> Str(<<"A">>), phone |-> Str(<<"123">>), zzz |-> Str(<<"q">>)])

ScenarioMapped ==
    Obj([name |-> Str(<<"A">>), mobile |-> Str(<<"123">>),
         others |-> Obj([zzz |-> Str(<<"q">>)])])

\* C1: every key of data is either the source key selected for exactly one
\* canonical field or kept with its value under others, never both and never
\* dropped; the scenario {fullname, phone, zzz} maps to
\* {name, mobile, others: {zzz}}.
C1_EveryKeyExactlyOnce ==
    MapReturned =>
        /\ \A k \in DOMAIN MapData :
              \/ Cardinality(SelectedFor(k)) = 1 /\ ~InOthers(k)
              \/ SelectedFor(k) = {} /\ InOthers(k)
        /\ result = ScenarioData => display_obj = ScenarioMapped

\* No candidate of canonical field f is a key of d with a truthy value.
NoTruthyAlias(d, f) ==
    \A i \in DOMAIN candidates_of(f) :
        candidates_of(f)[i] \in DOMAIN d => ~Truthy(d[candidates_of(f)[i]])

\* C2 as stated: a canonical field none of whose aliases is present with a
\* truthy value is not a key of the output.
C2_AbsentWithoutTruthyAlias ==
    MapReturned =>
        \A f \in canonical_keys : NoTruthyAlias(MapData, f) => f \notin DOMAIN MapOut

\* C2 amended: such a field is not a key of the output unless f itself is a
\* key of data, and then the output holds data[f] under f.
C2_AbsentUnlessDirectHit ==
    MapReturned =>
        \A f \in canonical_keys :
            NoTruthyAlias(MapData, f) =>
                IF f \in DOMAIN MapData
                THEN f \in DOMAIN MapOut /\ MapOut[f] = MapData[f]
                ELSE f \notin DOMAIN MapOut

C2_Witness ==
    /\ MapReturned
    /\ "fullname" \in DOMAIN MapData /\ ~Truthy(MapData["fullname"])
    /\ "name" \notin DOMAIN MapData /\ "name" \notin DOMAIN MapOut
    /\ "fname" \in DOMAIN MapData /\ ~Truthy(MapData["fname"])
    /\ "father_name" \notin DOMAIN MapData
    /\ "fname" \in DOMAIN MapOut /\ MapOut["fname"] = MapData["fname"]

\* C3: a canonical field with a truthy alias present takes the value of the
\* first such alias in list order; neither a later alias nor the direct-hit
\* pass replaces it.
C3_FirstTruthyAliasWins ==
    MapReturned =>
        \A f \in canonical_keys :
            \A i \in DOMAIN candidates_of(f) :
                ( /\ candidates_of(f)[i] \in DOMAIN MapData
                  /\ Truthy(MapData[candidates_of(f)[i]])
                  /\ \A j \in 1..(i - 1) :
                        candidates_of(f)[j] \in DOMAIN MapData
                            => ~Truthy(MapData[candidates_of(f)[j]]) )
                => f \in DOMAIN MapOut /\ MapOut[f] = MapData[candidates_of(f)[i]]

C3_Witness ==
    /\ MapReturned
    /\ "name" \notin DOMAIN MapData
    /\ "fullname" \in DOMAIN MapData /\ Truthy(MapData["fullname"])
    /\ "name" \in DOMAIN MapOut /\ MapOut["name"] = MapData["fullname"]
    /\ "father_name" \in DOMAIN MapData /\ Truthy(MapData["father_name"])
    /\ "fname" \in DOMAIN MapData /\ Truthy(MapData["fname"])
    /\ MapData["fname"] # MapData["father_name"]
    /\ MapOut["fname"] = MapData["father_name"]

\* C7: for data that is not an object auto_map_fields returns exactly
\* {others: {raw: data}}.
C7_NonObjectUnderOthersRaw ==
    (pc = "map_return" /\ ~IsDict(result))
        => display_obj = Obj([others |-> Obj([raw |-> result])])

\* json.dumps with compact separators, on the values the grammar yields.
RECURSIVE dumps(_)
RECURSIVE dumps_items(_)
dumps(v) ==
    CASE v[1] = "num" -> <<"1">>
      [] v[1] = "obj" -> <<"{", "}">>
      [] v[1] = "list" -> <<"[">> \o dumps_items(v[2]) \o <<"]">>
      [] OTHER -> <<"x">>

dumps_items(l) ==
    IF l = <<>> THEN <<>>
    ELSE IF Len(l) = 1 THEN dumps(l[1])
    ELSE dumps(l[1]) \o <<",">> \o dumps_items(Tail(l))

\* Every JSON value of the grammar whose text has at most six tokens.
JsonDepth0 == {Num(1), Obj(EmptyDict), List(<<>>)}
JsonDepth1 == JsonDepth0 \cup {List(l) : l \in SeqsUpTo(JsonDepth0, 3)}
JsonDepth2 == JsonDepth1 \cup {List(l) : l \in SeqsUpTo(JsonDepth1, 2)}
JsonDepth3 == JsonDepth2 \cup {List(<<v>>) : v \in JsonDepth2}
JsonTexts == {dumps(v) : v \in JsonDepth3}

\* C6: a body that is a JSON array L gives exactly {results: L}, a body that
\* is not JSON gives exactly {text: body}, and the status code is returned
\* unchanged.
C6_EnvelopeByBodyShape ==
    pc = "api_return" =>
        /\ status = <<outcome.status_code>>
        /\ (outcome.body \in JsonTexts /\ Head(outcome.body) = "[") =>
              /\ IsDict(result)
              /\ DOMAIN result[2] = {"results"}
              /\ IsList(result[2]["results"])
              /\ dumps(result[2]["results"]) = outcome.body
        /\ outcome.body \notin JsonTexts =>
              result = Obj([text |-> Str(outcome.body)])

C6_Witness ==
    /\ pc = "api_return"
    /\ outcome.body = <<"[", "1", "]">>
    /\ outcome.status_code = 404
    /\ result = Obj([results |-> List(<<Num(1)>>)])
    /\ status = <<404>>

FetchFailed == outcome.kind \in {"RequestException", "Exception"}

C5_EmptyTermStopsAtGuard ==
    (pc # "idle" /\ term = <<>>) =>
        /\ pc = "done"
        /\ shown = {"input_error"}
        /\ calls = <<>>
        /\ requests = <<>>
        /\ result = Unset
        /\ display_obj = Unset

C5_Witness ==
    /\ pc = "done"
    /\ term = <<>>
    /\ use_mock = FALSE
    /\ "input_error" \in shown
    /\ calls = <<>>

MockRan == pc \in {"present", "done"} /\ calls = <<"mock_lookup">>

C9_AtMostOneGetPerTrigger ==
    /\ Len(requests) <= 1
    /\ use_mock => requests = <<>>
    /\ strip(base_url) = <<>> => requests = <<>>
    /\ FetchFailed => Len(requests) = 1 /\ pc \in {"present", "done"}
    /\ (pc \in {"present", "done"} /\ calls = <<"call_real_api">>)
          => Len(requests) = 1

C9_Witness ==
    /\ pc = "done"
    /\ outcome.kind = "RequestException"
    /\ outcome.response # None
    /\ Len(requests) = 1
    /\ "network_error" \in shown

\* C10: every GET issued carries a non-empty term parameter.
C10_RequestTermNonEmpty ==
    \A i \in DOMAIN requests : requests[i].params[strip(term_param)] # <<>>

====
